---- MODULE Spec2Model ----
(***************************************************************************)
(* A model of the RAG-Enterprise backend: the embeddings service and its   *)
(* CUDA -> CPU fallback (embeddings_service.py), the retrieval and gap     *)
(* filtering of RAGPipeline.query (rag_pipeline.py), the per-user          *)
(* conversation memory kept by the /api/query handler (app.py), the        *)
(* Qdrant connector (qdrant_connector.py) and the ingestion of uploaded    *)
(* documents (app.py, rag_pipeline.py).                                    *)
(*                                                                         *)
(* Similarity scores are cosine scores in [0,1]; they are modelled as      *)
(* integers in units of 1/10000, so 0.65 is 6500 and 0.15 is 1500.         *)
(* Time is time.time() in whole seconds.                                   *)
(***************************************************************************)
EXTENDS Integers, Sequences, FiniteSets, TLC

VARIABLES
    \* ---- EmbeddingsService fields (embeddings_service.py:107-125)
    device,              \* self.device: "cuda" | "cpu"
    original_device,     \* self.original_device
    cuda_available,      \* self.cuda_available
    last_fallback_time,  \* self.last_fallback_time
    model_device,        \* the device self.model is loaded on
    now,                 \* the clock read by time.time()
    last_call,           \* what the last embed_text / embed_texts call did
    \* ---- RAGPipeline.query locals (rag_pipeline.py:219-334)
    stage,               \* how far the last query got
    retrieved_docs,      \* the hits qdrant_connector.search returned
    relevant_docs,       \* the hits left after gap filtering
    \* ---- app.py globals
    user_conversations,  \* user_conversations: user id -> list of exchanges
    last_response,       \* the last request handled and its response
    \* ---- history variable
    appended,            \* per user, the exchanges appended since the last clear
    \* ---- the Qdrant collection and QdrantConnector (qdrant_connector.py)
    points,              \* the collection's points, in the order of their ids
    next_point_id,       \* the ids below it have been drawn by uuid.uuid4()
    store_log,           \* the client calls of the last connector operation
    store_response,      \* the last connector operation and what it gave
    \* ---- document ingestion (app.py upload_document and its background task)
    documents            \* per document id, how far its ingestion got

gatewayVars == <<device, original_device, cuda_available, last_fallback_time,
                 model_device, now, last_call>>

(***************************************************************************)
(* Bounds of the model (not program constants).                            *)
(***************************************************************************)
StartTime == 100
MaxTime == 225
MaxHits == 4
MaxAppends == 22
MaxTurns == 2
MaxQueryHits == 2
MaxPoints == 2002
MaxPointId == 2003
MaxChunks == 2

(***************************************************************************)
(* EmbeddingsService                                                       *)
(***************************************************************************)
GPU_RETRY_INTERVAL == 60

\* The app loads the default model EMBEDDING_MODEL (app.py:145).
model_name == "all-MiniLM-L6-v2"

\* The batch sizes of EmbeddingsService.MODELS.
MODELS ==
    [n \in {"all-MiniLM-L6-v2", "multilingual-MiniLM-L6-v2", "all-mpnet-base-v2",
            "multilingual-e5-large", "deepseek-ai/deepseek-coder-6.7b-base",
            "BAAI/bge-large-en-v1.5", "BAAI/bge-m3", "intfloat/e5-large-v2",
            "sentence-transformers/all-roberta-large-v1"} |->
        CASE n \in {"all-MiniLM-L6-v2", "multilingual-MiniLM-L6-v2"} ->
                 [gpu_batch_size |-> 32, cpu_batch_size |-> 16]
          [] n = "all-mpnet-base-v2" ->
                 [gpu_batch_size |-> 16, cpu_batch_size |-> 8]
          [] n = "deepseek-ai/deepseek-coder-6.7b-base" ->
                 [gpu_batch_size |-> 2, cpu_batch_size |-> 1]
          [] n = "BAAI/bge-m3" ->
                 [gpu_batch_size |-> 4, cpu_batch_size |-> 2]
          [] OTHER ->
                 [gpu_batch_size |-> 8, cpu_batch_size |-> 4]]

gpu_batch_size == MODELS[model_name].gpu_batch_size
cpu_batch_size == MODELS[model_name].cpu_batch_size

\* The service's fields as one record.
Gateway ==
    [device |-> device, original_device |-> original_device,
     cuda_available |-> cuda_available,
     last_fallback_time |-> last_fallback_time,
     model_device |-> model_device]

\* What the environment decides during one embedding call:
\*   gpu_load : whether SentenceTransformer(..., device="cuda") succeeds
\*   enc1     : the outcome of the first model.encode
\*                "ok"         it returns the vectors
\*                "cuda_error" RuntimeError whose text holds "CUDA" or
\*                             "out of memory"
\*                "error"      any other exception
\*   enc2     : the outcome of the encode after _fallback_to_cpu
\* Loading the model on the CPU is taken to succeed: the code has no handler
\* for its failure.
EncodeOutcomes == {"ok", "cuda_error", "error"}
RetryOutcomes == {"ok", "error"}
CallEnvs == [gpu_load : BOOLEAN, enc1 : EncodeOutcomes, enc2 : RetryOutcomes]

\* except RuntimeError ... if "CUDA" in error_str or "out of memory" in ...
IsCudaError(outcome) == outcome = "cuda_error"

\* The guard of _maybe_retry_gpu.
RetryDue_NoWait(g, t) ==
    /\ g.device = "cpu"
    /\ g.original_device = "cuda"
    /\ g.cuda_available

RetryDue(g, t) ==
    /\ g.device = "cpu"
    /\ g.original_device = "cuda"
    /\ g.cuda_available
    /\ t - g.last_fallback_time > GPU_RETRY_INTERVAL

\* _maybe_retry_gpu without its except branch's timestamp reset.
MaybeRetryGpu_NoReset(g, t, gpu_load) ==
    IF RetryDue(g, t)
    THEN IF gpu_load
         THEN [gw |-> [g EXCEPT !.model_device = "cuda", !.device = "cuda"],
               restore |-> "ok"]
         ELSE [gw |-> [g EXCEPT !.model_device = "cpu"],
               restore |-> "failed"]
    ELSE [gw |-> g, restore |-> "none"]

\* _maybe_retry_gpu: the service after it, and what it did.
MaybeRetryGpu(g, t, gpu_load) ==
    IF RetryDue(g, t)
    THEN IF gpu_load
         THEN [gw |-> [g EXCEPT !.model_device = "cuda", !.device = "cuda"],
               restore |-> "ok"]
         ELSE [gw |-> [g EXCEPT !.model_device = "cpu",
                                !.last_fallback_time = t],
               restore |-> "failed"]
    ELSE [gw |-> g, restore |-> "none"]

\* _fallback_to_cpu reloading the model without recording the new device.
FallbackToCpu_KeepsDeviceField(g, t) ==
    IF g.device # "cpu"
    THEN [g EXCEPT !.model_device = "cpu", !.last_fallback_time = t]
    ELSE g

\* _fallback_to_cpu
FallbackToCpu(g, t) ==
    IF g.device # "cpu"
    THEN [g EXCEPT !.model_device = "cpu", !.device = "cpu",
                   !.last_fallback_time = t]
    ELSE g

\* One model.encode call as the caller sees it.
Encode(g, input, batch, outcome) ==
    [device |-> g.model_device, input |-> input, batch_size |-> batch,
     outcome |-> outcome]

\* The vectors an encode returns: they are told apart by the encode that
\* computed them.
Vectors(enc, k) == [input |-> enc.input, device |-> enc.device, attempt |-> k]
NoVectors == [input |-> <<>>, device |-> "none", attempt |-> 0]

\* The default batch size taken from the device the service started on.
FirstBatch_ByOriginalDevice(g, batch_size) ==
    IF batch_size = 0
    THEN IF g.original_device = "cuda" THEN gpu_batch_size
         ELSE cpu_batch_size
    ELSE batch_size

\* The batch size of the first encode of embed_texts; 0 stands for None.
FirstBatch(g, batch_size) ==
    IF batch_size = 0
    THEN IF g.device = "cuda" THEN gpu_batch_size ELSE cpu_batch_size
    ELSE batch_size

\* The except branch of embed_text / embed_texts with no second encode: the
\* CUDA error is raised after the fallback.
AfterCudaError_NoRetry(op, g1, t, input, e, first, restore, start) ==
    LET g2 == FallbackToCpu(g1, t)
    IN  [op |-> op, at |-> t, start |-> start, restore |-> restore,
         restored |-> g1, encodes |-> <<first>>, gw |-> g2,
         result |-> "error", vectors |-> NoVectors]

\* The except RuntimeError branch of embed_text / embed_texts for a CUDA
\* error: fall back, encode once more, return or raise what that gives.
AfterCudaError(op, g1, t, input, e, first, restore, start) ==
    LET g2 == FallbackToCpu(g1, t)
        second == Encode(g2, input,
                         IF op = "embed_texts" THEN cpu_batch_size ELSE 0,
                         e.enc2)
    IN  [op |-> op, at |-> t, start |-> start, restore |-> restore,
         restored |-> g1, encodes |-> <<first, second>>, gw |-> g2,
         result |-> IF e.enc2 = "ok" THEN "ok" ELSE "error",
         vectors |-> IF e.enc2 = "ok" THEN Vectors(second, 2) ELSE NoVectors]

\* The try / except of embed_text and embed_texts, entered with the service
\* g1 that _maybe_retry_gpu left (r.gw).
EncodeWithFallback(op, g, t, input, batch_size, e, r) ==
    LET g1 == r.gw
        first == Encode(g1, input,
                        IF op = "embed_texts" THEN FirstBatch(g1, batch_size)
                        ELSE 0,
                        e.enc1)
    IN  IF e.enc1 = "ok"
        THEN [op |-> op, at |-> t, start |-> g, restore |-> r.restore,
              restored |-> g1, encodes |-> <<first>>, gw |-> g1,
              result |-> "ok", vectors |-> Vectors(first, 1)]
        ELSE IF IsCudaError(e.enc1)
        THEN AfterCudaError(op, g1, t, input, e, first, r.restore, g)
        ELSE [op |-> op, at |-> t, start |-> g, restore |-> r.restore,
              restored |-> g1, encodes |-> <<first>>, gw |-> g1,
              result |-> "error", vectors |-> NoVectors]

\* The call with a _maybe_retry_gpu that lets a failed GPU reload escape.
EmbedCall_RestoreRaises(op, g, t, input, batch_size, e) ==
    IF RetryDue(g, t) /\ ~e.gpu_load
    THEN [op |-> op, at |-> t, start |-> g, restore |-> "failed",
          restored |-> g, encodes |-> <<>>, gw |-> g,
          result |-> "error", vectors |-> NoVectors]
    ELSE EncodeWithFallback(op, g, t, input, batch_size, e,
                            MaybeRetryGpu(g, t, e.gpu_load))

\* embed_text (op = "embed_text", batch_size = 0) and embed_texts
\* (op = "embed_texts"): the whole call on service g at time t.
EmbedCall(op, g, t, input, batch_size, e) ==
    EncodeWithFallback(op, g, t, input, batch_size, e,
                       MaybeRetryGpu(g, t, e.gpu_load))

\* The service's fields become those of record g.
SetGateway(g) ==
    /\ device' = g.device
    /\ last_fallback_time' = g.last_fallback_time
    /\ model_device' = g.model_device
    /\ UNCHANGED <<original_device, cuda_available>>

NoCall ==
    [op |-> "none", at |-> 0, start |-> Gateway, restore |-> "none",
     restored |-> Gateway, encodes |-> <<>>, gw |-> Gateway,
     result |-> "none", vectors |-> NoVectors]

\* EmbeddingsService.__init__ as the app calls it: device defaults to "cuda"
\* when torch.cuda.is_available(), else "cpu".
GatewayInit ==
    /\ cuda_available \in BOOLEAN
    /\ device = IF cuda_available THEN "cuda" ELSE "cpu"
    /\ original_device = device
    /\ model_device = device
    /\ last_fallback_time = 0
    /\ now = StartTime
    /\ last_call = NoCall

Texts == {1, 2}
TextBatches == {<<1>>, <<1, 2>>}
BatchSizes == {0, 2}

embed_text(text, e) ==
    /\ \E c \in {EmbedCall("embed_text", Gateway, now, <<text>>, 0, e)} :
          /\ SetGateway(c.gw)
          /\ last_call' = c
    /\ UNCHANGED now

embed_texts(texts, batch_size, e) ==
    /\ \E c \in {EmbedCall("embed_texts", Gateway, now, texts, batch_size, e)} :
          /\ SetGateway(c.gw)
          /\ last_call' = c
    /\ UNCHANGED now

\* Time passes between calls. The clock is observed in steps of half the
\* retry interval or one second more, so that a call can come exactly
\* GPU_RETRY_INTERVAL seconds after a fallback, and one second later.
TickSteps == {GPU_RETRY_INTERVAL \div 2, GPU_RETRY_INTERVAL \div 2 + 1}
Tick(d) ==
    /\ now + d <= MaxTime
    /\ now' = now + d
    /\ UNCHANGED <<device, original_device, cuda_available,
                   last_fallback_time, model_device, last_call>>

pipelineVars == <<stage, retrieved_docs, relevant_docs>>
memoryVars == <<user_conversations, last_response, appended>>
storeVars == <<points, next_point_id, store_log, store_response>>
ingestVars == <<storeVars, documents>>
vars == <<gatewayVars, pipelineVars, memoryVars, ingestVars>>

(***************************************************************************)
(* RAGPipeline.query                                                       *)
(***************************************************************************)
\* app.py RELEVANCE_THRESHOLD default 0.3, passed to the search as
\* score_threshold: the store returns no hit below it.
RELEVANCE_THRESHOLD == 3000
\* if first_score >= 0.65 and gap > 0.15
DOMINANCE_THRESHOLD == 6500
GAP_THRESHOLD == 1500
\* doc.get("similarity", 0) >= 0.40
SECONDARY_CUTOFF == 4000
\* if len(relevant_docs) < 3: relevant_docs = retrieved_docs[:3]
MIN_KEPT == 3
\* history[-5:]
HISTORY_WINDOW == 5

NO_DOCS_ANSWER == "I haven't found relevant documents to answer this question."
LlmAnswers == {"generated answer"}

Min(a, b) == IF a <= b THEN a ELSE b
Max(a, b) == IF a >= b THEN a ELSE b

\* One entry of search_results (qdrant_connector.py:195-199); the payload
\* is kept as the document id and the chunk index.
Hit(s, d, c) == [similarity |-> s, document_id |-> d, chunk_index |-> c]

\* The lists a search can return: sorted by descending similarity.
SortedScoreSeqs(S, n) ==
    {f \in [1..n -> S] : \A i \in 1..(n - 1) : f[i] >= f[i + 1]}

HitListsOf(S, D, maxlen) ==
    UNION {{[i \in 1..n |-> Hit(sc[i], dc[i], i - 1)] :
               sc \in SortedScoreSeqs(S, n), dc \in [1..n -> D]} :
           n \in 0..maxlen}

\* retrieved_docs[:k] and retrieved_docs[k:]
Take(s, k) == SubSeq(s, 1, Min(k, Len(s)))
Drop(s, k) == SubSeq(s, Min(k, Len(s)) + 1, Len(s))
\* history[-k:]
LastN(s, k) == SubSeq(s, Max(1, Len(s) - k + 1), Len(s))

\* if first_score >= 0.65 and gap > 0.15
GapTriggered(first_score, second_score) ==
    /\ first_score >= DOMINANCE_THRESHOLD
    /\ first_score - second_score > GAP_THRESHOLD

\* The cutoff taken to be the base relevance threshold.
AboveCutoff_BaseThreshold(docs) ==
    LET Keep(doc) == doc.similarity >= RELEVANCE_THRESHOLD
    IN  SelectSeq(docs, Keep)

\* [doc for doc in retrieved_docs if doc.get("similarity", 0) >= 0.40]
AboveCutoff(docs) ==
    LET Keep(doc) == doc.similarity >= SECONDARY_CUTOFF
    IN  SelectSeq(docs, Keep)

\* The safety check with the slice taken from the wrong end.
SafetyCheck_WrongSlice(docs, kept) ==
    IF Len(kept) < MIN_KEPT THEN Drop(docs, MIN_KEPT) ELSE kept

\* The safety check keeping the top hit alone.
SafetyCheck_TopOnly(docs, kept) ==
    IF Len(kept) < MIN_KEPT THEN Take(docs, 1) ELSE kept

\* Safety check: keep at least top 3 documents.
SafetyCheck(docs, kept) ==
    IF Len(kept) < MIN_KEPT THEN Take(docs, MIN_KEPT) ELSE kept

\* Gap filtering, rag_pipeline.py:253-274.
GapFilter(docs) ==
    IF Len(docs) > 1
    THEN IF GapTriggered(docs[1].similarity, docs[2].similarity)
         THEN SafetyCheck(docs, AboveCutoff(docs))
         ELSE docs
    ELSE docs

\* The history section with the assistant's answers next to the questions.
FormatHistory_WithAnswers(history) ==
    LET last == LastN(history, HISTORY_WINDOW)
    IN  [i \in 1..(2 * Len(last)) |->
            IF i % 2 = 1 THEN last[(i + 1) \div 2].user
            ELSE last[i \div 2].assistant]

\* The history section without the questions that found no document.
FormatHistory_SkipsNoDocsTurns(history) ==
    LET Found(msg) == msg.assistant # NO_DOCS_ANSWER
        last == SelectSeq(LastN(history, HISTORY_WINDOW), Found)
    IN  [i \in 1..Len(last) |-> last[i].user]

\* _format_history: the user messages of the last five exchanges.
FormatHistory(history) ==
    LET last == LastN(history, HISTORY_WINDOW)
    IN  [i \in 1..Len(last) |-> last[i].user]

\* round(similarity, 3): to the nearest 1/1000. The scores of the model
\* never lie halfway between two thousandths.
Round3(s) == ((s + 5) \div 10) * 10

SourceOf(doc) ==
    [document_id |-> doc.document_id,
     similarity_score |-> Round3(doc.similarity),
     chunk_index |-> doc.chunk_index]

\* The position of document d in the sources kept so far, 0 when absent.
SourceIndex(acc, d) ==
    IF \E i \in 1..Len(acc) : acc[i].document_id = d
    THEN CHOOSE i \in 1..Len(acc) : acc[i].document_id = d
    ELSE 0

\* The loop over relevant_docs that fills sources_dict (a dict keeps the
\* order in which its keys were first inserted).
RECURSIVE DedupFrom(_, _, _)
DedupFrom(docs, i, acc) ==
    IF i > Len(docs)
    THEN acc
    ELSE LET doc == docs[i]
             k == SourceIndex(acc, doc.document_id)
         IN  IF k = 0
             THEN DedupFrom(docs, i + 1, Append(acc, SourceOf(doc)))
             ELSE IF doc.similarity > acc[k].similarity_score
             THEN DedupFrom(docs, i + 1, [acc EXCEPT ![k] = SourceOf(doc)])
             ELSE DedupFrom(docs, i + 1, acc)

\* The sort taken in ascending order.
InsertSource_Ascending(x, sorted) ==
    LET p == Cardinality({i \in 1..Len(sorted) :
                             sorted[i].similarity_score < x.similarity_score})
    IN  SubSeq(sorted, 1, p) \o <<x>> \o SubSeq(sorted, p + 1, Len(sorted))

\* sources.sort(key=similarity_score, reverse=True): a stable sort.
InsertSource(x, sorted) ==
    LET p == Cardinality({i \in 1..Len(sorted) :
                             sorted[i].similarity_score > x.similarity_score})
    IN  SubSeq(sorted, 1, p) \o <<x>> \o SubSeq(sorted, p + 1, Len(sorted))

RECURSIVE SortSources(_)
SortSources(s) ==
    IF s = <<>> THEN <<>> ELSE InsertSource(Head(s), SortSources(Tail(s)))

Sources(docs) == SortSources(DedupFrom(docs, 1, <<>>))

NoPrompt == [history_section |-> <<>>, context |-> <<>>, question |-> 0]

\* What the environment decides during one query:
\*   emb    : the embedding call's environment
\*   search : "ok" or "error" (the store raises)
\*   hits   : what the search returns when it does
\*   llm    : an answer of LlmAnswers, or "error" (the LLM call raises)
QueryEnvsOf(embEnvs, searchOutcomes, hitLists, llmOutcomes) ==
    [emb : embEnvs, search : searchOutcomes, hits : hitLists,
     llm : llmOutcomes]

\* The zero-hit return left out: the query goes on to the LLM.
QueryAfterSearch_NoShortCircuit(query, history, e, c) ==
    LET rel == GapFilter(e.hits)
        prompt == [history_section |-> FormatHistory(history),
                   context |-> rel, question |-> query]
    IN  IF e.llm = "error"
        THEN [status |-> "error", stage |-> "raised_llm", answer |-> "",
              sources |-> <<>>, llm_calls |-> 1, retrieved |-> e.hits,
              relevant |-> rel, prompt |-> prompt, call |-> c]
        ELSE [status |-> "ok", stage |-> "answered", answer |-> e.llm,
              sources |-> Sources(rel), llm_calls |-> 1,
              retrieved |-> e.hits, relevant |-> rel, prompt |-> prompt,
              call |-> c]

\* A query that answers with an empty text when the LLM call raises.
QueryAfterSearch_SwallowsLlmError(query, history, e, c) ==
    LET rel == GapFilter(e.hits)
        prompt == [history_section |-> FormatHistory(history),
                   context |-> rel, question |-> query]
    IN  [status |-> "ok", stage |-> IF e.llm = "error" THEN "raised_llm"
                                     ELSE "answered",
         answer |-> IF e.llm = "error" THEN "" ELSE e.llm,
         sources |-> Sources(rel), llm_calls |-> 1, retrieved |-> e.hits,
         relevant |-> rel, prompt |-> prompt, call |-> c]

\* RAGPipeline.query from the search result on (rag_pipeline.py:236-334).
QueryAfterSearch(query, history, e, c) ==
    IF e.hits = <<>>
    THEN [status |-> "ok", stage |-> "no_results",
          answer |-> NO_DOCS_ANSWER, sources |-> <<>>, llm_calls |-> 0,
          retrieved |-> e.hits, relevant |-> <<>>, prompt |-> NoPrompt,
          call |-> c]
    ELSE LET rel == GapFilter(e.hits)
             prompt == [history_section |-> FormatHistory(history),
                        context |-> rel, question |-> query]
         IN  IF e.llm = "error"
             THEN [status |-> "error", stage |-> "raised_llm", answer |-> "",
                   sources |-> <<>>, llm_calls |-> 1, retrieved |-> e.hits,
                   relevant |-> rel, prompt |-> prompt, call |-> c]
             ELSE [status |-> "ok", stage |-> "answered", answer |-> e.llm,
                   sources |-> Sources(rel), llm_calls |-> 1,
                   retrieved |-> e.hits, relevant |-> rel, prompt |-> prompt,
                   call |-> c]

\* RAGPipeline.query on service g at time t: status "ok" is a return,
\* "error" a raise.
PipelineQuery(g, t, query, top_k, history, e) ==
    LET c == EmbedCall("embed_text", g, t, <<query>>, 0, e.emb)
    IN  IF c.result # "ok"
        THEN [status |-> "error", stage |-> "raised_embed", answer |-> "",
              sources |-> <<>>, llm_calls |-> 0, retrieved |-> <<>>,
              relevant |-> <<>>, prompt |-> NoPrompt, call |-> c]
        ELSE IF e.search = "error"
        THEN [status |-> "error", stage |-> "raised_search", answer |-> "",
              sources |-> <<>>, llm_calls |-> 0, retrieved |-> <<>>,
              relevant |-> <<>>, prompt |-> NoPrompt, call |-> c]
        ELSE QueryAfterSearch(query, history, e, c)

(***************************************************************************)
(* Conversation memory: app.py query_rag, clear_user_memory,               *)
(* clear_all_memory                                                        *)
(***************************************************************************)
\* if len(conversation_history) > 20: ... conversation_history[-20:]
MAX_HISTORY == 20

Users == {"u1", "u2"}

Exchange(query, answer) == [user |-> query, assistant |-> answer]

\* The list as it stood before any exchange was appended to it: an append
\* made on it loses the exchanges stored since.
HistoryOf_BeforeOtherAppends(u) == <<>>

HistoryOf(u) ==
    IF u \in DOMAIN user_conversations THEN user_conversations[u] ELSE <<>>

\* The cap cutting from the wrong end.
Truncate_KeepOldest(history) ==
    IF Len(history) > MAX_HISTORY THEN Take(history, MAX_HISTORY) ELSE history

\* Limit to last 20 exchanges.
Truncate(history) ==
    IF Len(history) > MAX_HISTORY THEN LastN(history, MAX_HISTORY) ELSE history

NoResponse == [kind |-> "none"]

\* POST /api/query for user u. The handler is a coroutine that never
\* awaits, so it runs from its first line to its last without another
\* request in between.
query_rag(u, query, top_k, e) ==
    /\ Len(e.hits) <= top_k
    /\ \A i \in 1..Len(e.hits) : e.hits[i].similarity >= RELEVANCE_THRESHOLD
    /\ \E r \in {PipelineQuery(Gateway, now, query, top_k, HistoryOf(u), e)} :
          /\ SetGateway(r.call.gw)
          /\ last_call' = r.call
          /\ stage' = r.stage
          /\ retrieved_docs' = r.retrieved
          /\ relevant_docs' = r.relevant
          /\ last_response' =
                 [kind |-> "query", user |-> u, query |-> query,
                  top_k |-> top_k, status |-> r.status, answer |-> r.answer,
                  sources |-> r.sources, llm_calls |-> r.llm_calls,
                  prompt |-> r.prompt]
          /\ user_conversations' =
                 [x \in DOMAIN user_conversations \cup {u} |->
                     IF x # u THEN user_conversations[x]
                     ELSE IF r.status = "ok"
                     THEN Truncate(Append(HistoryOf(u),
                                          Exchange(query, r.answer)))
                     ELSE HistoryOf(u)]
          /\ appended' =
                 IF r.status = "ok"
                 THEN [appended EXCEPT
                          ![u] = Append(@, Exchange(query, r.answer))]
                 ELSE appended
    /\ UNCHANGED now

\* DELETE /api/admin/memory/{user_id}
clear_user_memory(u) ==
    /\ IF u \in DOMAIN user_conversations
       THEN /\ last_response' =
                   [kind |-> "clear", target |-> u, users_removed |-> 1,
                    exchanges_removed |-> Len(user_conversations[u])]
            /\ user_conversations' =
                   [x \in DOMAIN user_conversations \ {u} |->
                       user_conversations[x]]
       ELSE /\ last_response' =
                   [kind |-> "clear", target |-> u, users_removed |-> 0,
                    exchanges_removed |-> 0]
            /\ UNCHANGED user_conversations
    /\ appended' = [appended EXCEPT ![u] = <<>>]
    /\ UNCHANGED <<gatewayVars, pipelineVars>>

\* The total taken to be the number of users.
TotalExchanges_CountsUsers(conv, us) == Cardinality(us)

RECURSIVE TotalExchanges(_, _)
TotalExchanges(conv, us) ==
    IF us = {} THEN 0
    ELSE LET u == CHOOSE x \in us : TRUE
         IN  Len(conv[u]) + TotalExchanges(conv, us \ {u})

\* DELETE /api/admin/memory
clear_all_memory ==
    /\ last_response' =
           [kind |-> "clear", target |-> "all",
            users_removed |-> Cardinality(DOMAIN user_conversations),
            exchanges_removed |->
                TotalExchanges(user_conversations, DOMAIN user_conversations)]
    /\ user_conversations' = <<>>
    /\ appended' = [u \in Users |-> <<>>]
    /\ UNCHANGED <<gatewayVars, pipelineVars>>

PipelineInit ==
    /\ stage = "idle"
    /\ retrieved_docs = <<>>
    /\ relevant_docs = <<>>

MemoryInit ==
    /\ user_conversations = <<>>
    /\ last_response = NoResponse
    /\ appended = [u \in Users |-> <<>>]

(***************************************************************************)
(* QdrantConnector: insert_vectors, search, delete_document,               *)
(* get_indexed_documents, get_stats (qdrant_connector.py)                  *)
(*                                                                         *)
(* The collection is the sequence of its points in the order of their ids, *)
(* the order in which scroll walks it. uuid.uuid4() never returns an id it *)
(* returned before: the ids are the naturals from 1 on, in the order drawn.*)
(* A client call either is applied and acknowledged ("ok") or raises       *)
(* ("error") and changes nothing in the store.                             *)
(***************************************************************************)
\* BATCH_SIZE = 1000 in insert_vectors
BATCH_SIZE == 1000
\* batch_size = 1000 in get_indexed_documents
scroll_batch_size == 1000

DocumentIds == {"d1", "d2"}

\* One entry of metadatas, as index_chunks builds it (rag_pipeline.py:169):
\* the fields the connector reads.
Metadata(d, i) == [document_id |-> d, chunk_index |-> i]
MetadatasOf(d, n) == [i \in 1..n |-> Metadata(d, i - 1)]

\* PointStruct(id=point_id, vector=vector, payload=metadata)
PointStruct(point_id, metadata) == [id |-> point_id, payload |-> metadata]

NoResult == [op |-> "none", status |-> "none"]
Returned(op, value) == [op |-> op, status |-> "ok", value |-> value]
Raised(op) == [op |-> op, status |-> "raised"]

ClientCall(call, first, last, outcome) ==
    [call |-> call, first |-> first, last |-> last, outcome |-> outcome]

\* An upsert that overwrites the stored points of the same chunks of the
\* same document, whatever their ids.
Upsert_ByChunk(pts, batch) ==
    IF batch = <<>> THEN pts
    ELSE LET d == batch[1].payload.document_id
             chunks == batch[1].payload.chunk_index ..
                           batch[Len(batch)].payload.chunk_index
             Other(p) == \/ p.payload.document_id # d
                         \/ p.payload.chunk_index \notin chunks
         IN  SelectSeq(pts, Other) \o batch

\* client.upsert(points=batch, wait=True) applied by the store: a point
\* whose id is stored already is overwritten, the others are added. The
\* ids of one batch are consecutive.
Upsert(pts, batch) ==
    IF batch = <<>> THEN pts
    ELSE LET ids == batch[1].id .. batch[Len(batch)].id
             Other(p) == p.id \notin ids
         IN  SelectSeq(pts, Other) \o batch

\* The end of a batch that runs to the end of the input.
BatchEnd_ToTheEnd(batch_idx, n) == n

\* batch_end = min(batch_idx + BATCH_SIZE, len(vectors))
BatchEnd(batch_idx, n) == Min(batch_idx + BATCH_SIZE, n)

\* The loop of insert_vectors from batch_idx on (qdrant_connector.py:127-153).
\* Batch number fail_at raises; 0 when none does. Indices count from 0, as
\* in the code: a batch is vectors[batch_idx:batch_end].
RECURSIVE UpsertBatches(_, _, _, _, _, _)
UpsertBatches(pts, next_id, metadatas, batch_idx, fail_at, log) ==
    IF batch_idx >= Len(metadatas)
    THEN [status |-> "ok", points |-> pts, next_id |-> next_id, log |-> log]
    ELSE LET batch_end == BatchEnd(batch_idx, Len(metadatas))
             batch == [i \in 1..(batch_end - batch_idx) |->
                          PointStruct(next_id + i - 1, metadatas[batch_idx + i])]
         IN  IF fail_at = Len(log) + 1
             THEN [status |-> "raised", points |-> pts,
                   next_id |-> next_id + Len(batch),
                   log |-> Append(log, ClientCall("upsert", batch_idx,
                                                  batch_end, "error"))]
             ELSE UpsertBatches(Upsert(pts, batch), next_id + Len(batch),
                                metadatas, batch_idx + BATCH_SIZE, fail_at,
                                Append(log, ClientCall("upsert", batch_idx,
                                                       batch_end, "ok")))

\* An insert that takes back its earlier batches when an upsert raises.
InsertVectors_RollsBack(pts, next_id, vectors, metadatas, fail_at) ==
    LET r == UpsertBatches(pts, next_id, metadatas, 0, fail_at, <<>>)
    IN  IF r.status = "ok" THEN r ELSE [r EXCEPT !.points = pts]

\* An insert that empties the collection when an upsert raises.
InsertVectors_ClearsOnFailure(pts, next_id, vectors, metadatas, fail_at) ==
    LET r == UpsertBatches(pts, next_id, metadatas, 0, fail_at, <<>>)
    IN  IF r.status = "ok" THEN r ELSE [r EXCEPT !.points = <<>>]

\* insert_vectors(vectors, metadatas) on the collection pts.
InsertVectors(pts, next_id, vectors, metadatas, fail_at) ==
    IF Len(vectors) # Len(metadatas)
    THEN [status |-> "raised", points |-> pts, next_id |-> next_id,
          log |-> <<>>]
    ELSE UpsertBatches(pts, next_id, metadatas, 0, fail_at, <<>>)

\* A delete whose filter matches every point.
DeleteDocument_Unfiltered(pts, document_id, outcome) ==
    IF outcome = "ok"
    THEN [status |-> "ok", points |-> <<>>,
          log |-> <<ClientCall("delete", 0, 0, "ok")>>]
    ELSE [status |-> "raised", points |-> pts,
          log |-> <<ClientCall("delete", 0, 0, "error")>>]

\* delete_document(document_id): client.delete with a filter on the
\* payload's document_id.
DeleteDocument(pts, document_id, outcome) ==
    LET Other(p) == p.payload.document_id # document_id
    IN  IF outcome = "ok"
        THEN [status |-> "ok", points |-> SelectSeq(pts, Other),
              log |-> <<ClientCall("delete", 0, 0, "ok")>>]
        ELSE [status |-> "raised", points |-> pts,
              log |-> <<ClientCall("delete", 0, 0, "error")>>]

\* The position of the point with the given id; offset 0 stands for None,
\* the start of the collection.
PositionOf(pts, offset) ==
    IF offset = 0 THEN 1
    ELSE CHOOSE i \in 1..Len(pts) : pts[i].id = offset

\* client.scroll(limit, offset): the page that starts at the point offset,
\* and the id of the point after the page, 0 (None) when there is none.
Scroll(pts, limit, offset) ==
    LET from == PositionOf(pts, offset)
        to == Min(from + limit - 1, Len(pts))
    IN  [points |-> SubSeq(pts, from, to),
         next_offset |-> IF to < Len(pts) THEN pts[to + 1].id ELSE 0,
         first |-> from, last |-> to]

\* A scroll loop that stops after its first page.
ScrollAll_FirstPageOnly(pts, offset, fail_at, all_points, log) ==
    IF fail_at = Len(log) + 1
    THEN [status |-> "error", all_points |-> all_points,
          log |-> Append(log, ClientCall("scroll", 0, 0, "error"))]
    ELSE LET r == Scroll(pts, scroll_batch_size, offset)
         IN  [status |-> "ok", all_points |-> all_points \o r.points,
              log |-> Append(log, ClientCall("scroll", r.first, r.last,
                                             "ok"))]

\* The while True loop of get_indexed_documents: scroll number fail_at
\* raises; 0 when none does.
RECURSIVE ScrollAll(_, _, _, _, _)
ScrollAll(pts, offset, fail_at, all_points, log) ==
    IF fail_at = Len(log) + 1
    THEN [status |-> "error", all_points |-> all_points,
          log |-> Append(log, ClientCall("scroll", 0, 0, "error"))]
    ELSE LET r == Scroll(pts, scroll_batch_size, offset)
             all == all_points \o r.points
             calls == Append(log, ClientCall("scroll", r.first, r.last, "ok"))
         IN  IF r.next_offset = 0
             THEN [status |-> "ok", all_points |-> all, log |-> calls]
             ELSE ScrollAll(pts, r.next_offset, fail_at, all, calls)

\* The positions of document d's points in a list of points.
PositionsOf(all, d) == {i \in DOMAIN all : all[i].payload.document_id = d}

FirstOf(S) == CHOOSE i \in S : \A j \in S : i <= j

\* The documents in the order in which the loop over all_points meets them
\* (docs is a dict: it keeps the order in which its keys were inserted).
RECURSIVE InOrderOfFirst(_, _)
InOrderOfFirst(all, ids) ==
    IF ids = {} THEN <<>>
    ELSE LET d == CHOOSE x \in ids :
                      \A y \in ids : FirstOf(PositionsOf(all, x))
                                        <= FirstOf(PositionsOf(all, y))
         IN  <<d>> \o InOrderOfFirst(all, ids \ {d})

\* The aggregation of get_indexed_documents (qdrant_connector.py:265-286):
\* one entry per document id, num_chunks counting its points.
GroupByDocument(all) ==
    LET order == InOrderOfFirst(all, {all[i].payload.document_id :
                                          i \in DOMAIN all})
    IN  [k \in DOMAIN order |->
            [document_id |-> order[k],
             num_chunks |-> Cardinality(PositionsOf(all, order[k])),
             status |-> "indexed"]]

\* get_indexed_documents: an exception is logged and [] is returned.
GetIndexedDocuments(pts, fail_at) ==
    LET r == ScrollAll(pts, 0, fail_at, <<>>, <<>>)
    IN  IF r.status = "ok"
        THEN [status |-> "ok", value |-> GroupByDocument(r.all_points),
              log |-> r.log]
        ELSE [status |-> "ok", value |-> <<>>, log |-> r.log]

\* get_stats: an exception is turned into a returned dict.
GetStats(pts, outcome) ==
    IF outcome = "ok"
    THEN [status |-> "ok",
          value |-> [total_vectors |-> Len(pts), status |-> "connected"],
          log |-> <<ClientCall("get_collection", 0, 0, "ok")>>]
    ELSE [status |-> "ok", value |-> [status |-> "error"],
          log |-> <<ClientCall("get_collection", 0, 0, "error")>>]

\* search(query_vector, top_k, threshold): the store ranks the points; the
\* hits are the environment's choice among the stored points.
Search(pts, top_k, hits, outcome) ==
    IF outcome = "ok"
    THEN [status |-> "ok", value |-> Take(hits, top_k),
          log |-> <<ClientCall("search", 0, 0, "ok")>>]
    ELSE [status |-> "raised", value |-> <<>>,
          log |-> <<ClientCall("search", 0, 0, "error")>>]

\* The list of ids that insert_vectors returns is kept as its length.
insert_vectors(vectors, metadatas, fail_at) ==
    /\ \E r \in {InsertVectors(points, next_point_id, vectors, metadatas,
                               fail_at)} :
          /\ points' = r.points
          /\ next_point_id' = r.next_id
          /\ store_log' = r.log
          /\ store_response' =
                 IF r.status = "ok"
                 THEN Returned("insert_vectors", Len(vectors))
                 ELSE Raised("insert_vectors")
    /\ UNCHANGED documents

search(top_k, hits, outcome) ==
    /\ \E r \in {Search(points, top_k, hits, outcome)} :
          /\ store_log' = r.log
          /\ store_response' =
                 IF r.status = "ok" THEN Returned("search", r.value)
                 ELSE Raised("search")
    /\ UNCHANGED <<points, next_point_id, documents>>

delete_document(document_id, outcome) ==
    /\ \E r \in {DeleteDocument(points, document_id, outcome)} :
          /\ points' = r.points
          /\ store_log' = r.log
          /\ store_response' =
                 IF r.status = "ok"
                 THEN Returned("delete_document", document_id)
                 ELSE Raised("delete_document")
    /\ UNCHANGED <<next_point_id, documents>>

get_indexed_documents(fail_at) ==
    /\ \E r \in {GetIndexedDocuments(points, fail_at)} :
          /\ store_log' = r.log
          /\ store_response' = Returned("get_indexed_documents", r.value)
    /\ UNCHANGED <<points, next_point_id, documents>>

get_stats(outcome) ==
    /\ \E r \in {GetStats(points, outcome)} :
          /\ store_log' = r.log
          /\ store_response' = Returned("get_stats", r.value)
    /\ UNCHANGED <<points, next_point_id, documents>>

StoreInit ==
    /\ points = <<>>
    /\ next_point_id = 1
    /\ store_log = <<>>
    /\ store_response = NoResult

(***************************************************************************)
(* Document ingestion: app.py upload_document and its background task      *)
(* process_document_background, RAGPipeline.index_chunks                   *)
(*                                                                         *)
(* A document id holds the time of the upload (app.py:563): a document id  *)
(* is uploaded once. The background task is a coroutine that never awaits: *)
(* it runs in one step, after the upload's response.                       *)
(***************************************************************************)
\* What ocr_service.extract_text can give: a text, possibly empty or of
\* white space only; OCR_RAISES stands for an exception of the extraction
\* or of the type detection that follows it.
OCR_RAISES == "<exception>"
ExtractedTexts == {"", "  ", "some text"}
OcrOutcomes == ExtractedTexts \cup {OCR_RAISES}

\* text.strip() on the texts of the model
Strip(text) == IF text = "  " THEN "" ELSE text

\* The emptiness test without the strip.
IsBlank_NoStrip(text) == text = ""

\* if not text or len(text.strip()) == 0
IsBlank(text) == text = "" \/ Strip(text) = ""

\* One stage of a document's ingestion: what ran, how it ended ("ok" or
\* "error"), and what it gave (the text, the number of chunks, of vectors,
\* of points sent).
Stage(name, outcome, output) ==
    [stage |-> name, outcome |-> outcome, output |-> output]

NotUploaded == [status |-> "absent", stages |-> <<>>]
Received == [status |-> "received", stages |-> <<>>]
\* A task that leaves its document queued.
Processed_StaysQueued(stages) == [status |-> "received", stages |-> stages]

Processed(stages) == [status |-> "processed", stages |-> stages]

\* What the environment decides during one ingestion:
\*   ocr     : an outcome of OcrOutcomes
\*   chunking: "ok", or "error" when chunk_text raises
\*   chunks  : the number of chunks chunk_text returns when it does
\*   emb     : the embedding call's environment
\*   fail_at : the upsert that raises, 0 for none
IngestEnvsOf(ocrOutcomes, chunkCounts, embEnvs, failures) ==
    [ocr : ocrOutcomes, chunking : {"ok", "error"}, chunks : chunkCounts,
     emb : embEnvs, fail_at : failures]

\* The chunks of a document: chunk k of n is told from the others by k.
ChunksOf(n) == [k \in 1..n |-> k]

\* index_chunks going on to the store after an embedding call that raised.
IndexChunks_IgnoresEmbedError(pts, next_id, g, t, chunks, document_id, e) ==
    LET c == EmbedCall("embed_texts", g, t, chunks, 0, e.emb)
        r == InsertVectors(pts, next_id, chunks,
                           MetadatasOf(document_id, Len(chunks)), e.fail_at)
    IN  [status |-> r.status, embedded |-> TRUE, call |-> c,
         inserted |-> TRUE, insert |-> r,
         stages |-> <<Stage("embed", IF c.result = "ok" THEN "ok" ELSE "error",
                            Len(c.vectors.input)),
                      Stage("insert", IF r.status = "ok" THEN "ok"
                                      ELSE "error", Len(chunks))>>]

\* RAGPipeline.index_chunks (rag_pipeline.py:152-195) on the service g and
\* the collection pts: status "ok" is a return, "raised" a raise.
IndexChunks(pts, next_id, g, t, chunks, document_id, e) ==
    LET none == [status |-> "ok", points |-> pts, next_id |-> next_id,
                 log |-> <<>>]
    IN  IF chunks = <<>>
        THEN [status |-> "ok", embedded |-> FALSE, call |-> NoCall,
              inserted |-> FALSE, insert |-> none, stages |-> <<>>]
        ELSE LET c == EmbedCall("embed_texts", g, t, chunks, 0, e.emb)
             IN  IF c.result # "ok"
                 THEN [status |-> "raised", embedded |-> TRUE, call |-> c,
                       inserted |-> FALSE, insert |-> none,
                       stages |-> <<Stage("embed", "error", 0)>>]
                 ELSE IF c.vectors.input = <<>>
                 THEN [status |-> "ok", embedded |-> TRUE, call |-> c,
                       inserted |-> FALSE, insert |-> none,
                       stages |-> <<Stage("embed", "ok", 0)>>]
                 ELSE LET r == InsertVectors(pts, next_id, c.vectors.input,
                                   MetadatasOf(document_id, Len(chunks)),
                                   e.fail_at)
                      IN  [status |-> r.status, embedded |-> TRUE,
                           call |-> c, inserted |-> TRUE, insert |-> r,
                           stages |->
                               <<Stage("embed", "ok", Len(c.vectors.input)),
                                 Stage("insert",
                                       IF r.status = "ok" THEN "ok"
                                       ELSE "error", Len(chunks))>>]

\* process_document_background (app.py:599-684): the stages it ran, and
\* what index_chunks did when it got that far.
ProcessDocument(pts, next_id, g, t, document_id, e) ==
    LET text == IF e.ocr = OCR_RAISES THEN "" ELSE e.ocr
        extract == Stage("extract",
                         IF e.ocr = OCR_RAISES THEN "error" ELSE "ok", text)
        nothing == IndexChunks(pts, next_id, g, t, <<>>, document_id, e)
    IN  IF IsBlank(text)
        THEN [stages |-> <<extract>>, index |-> nothing]
        ELSE IF e.chunking = "error"
        THEN [stages |-> <<extract, Stage("chunk", "error", 0)>>,
              index |-> nothing]
        ELSE IF e.chunks = 0
        THEN [stages |-> <<extract, Stage("chunk", "ok", 0)>>,
              index |-> nothing]
        ELSE LET ix == IndexChunks(pts, next_id, g, t, ChunksOf(e.chunks),
                                   document_id, e)
             IN  [stages |-> <<extract, Stage("chunk", "ok", e.chunks)>>
                                 \o ix.stages,
                  index |-> ix]

\* POST /api/documents/upload: the file is saved and the background task
\* queued.
upload_document(document_id) ==
    /\ documents[document_id].status = "absent"
    /\ documents' = [documents EXCEPT ![document_id] = Received]
    /\ UNCHANGED <<gatewayVars, storeVars>>

process_document_background(document_id, e) ==
    /\ documents[document_id].status = "received"
    /\ \E r \in {ProcessDocument(points, next_point_id, Gateway, now,
                                 document_id, e)} :
          /\ documents' =
                 [documents EXCEPT ![document_id] = Processed(r.stages)]
          /\ IF r.index.embedded
             THEN SetGateway(r.index.call.gw) /\ last_call' = r.index.call
             ELSE UNCHANGED <<device, original_device, cuda_available,
                              last_fallback_time, model_device, last_call>>
          /\ IF r.index.inserted
             THEN /\ points' = r.index.insert.points
                  /\ next_point_id' = r.index.insert.next_id
                  /\ store_log' = r.index.insert.log
                  /\ store_response' =
                         IF r.index.insert.status = "ok"
                         THEN Returned("insert_vectors",
                                       r.stages[Len(r.stages)].output)
                         ELSE Raised("insert_vectors")
             ELSE UNCHANGED storeVars
    /\ UNCHANGED now

IngestInit ==
    /\ StoreInit
    /\ documents = [d \in DocumentIds |-> NotUploaded]

(***************************************************************************)
(* Specifications                                                          *)
(***************************************************************************)
\* The embeddings service alone, with the clock.
EmbInit == GatewayInit /\ PipelineInit /\ MemoryInit /\ IngestInit
EmbNext ==
    \/ /\ \E text \in Texts, e \in CallEnvs : embed_text(text, e)
       /\ UNCHANGED <<pipelineVars, memoryVars, ingestVars>>
    \/ /\ \E texts \in TextBatches, b \in BatchSizes, e \in CallEnvs :
             embed_texts(texts, b, e)
       /\ UNCHANGED <<pipelineVars, memoryVars, ingestVars>>
    \/ /\ \E d \in TickSteps : Tick(d)
       /\ UNCHANGED <<pipelineVars, memoryVars, ingestVars>>

SpecEmb == EmbInit /\ [][EmbNext]_vars

\* Gap filtering alone: every sorted hit list over GapScores of up to
\* MaxHits hits, and the filter applied to it.
GapScores == {3000, 3900, 4000, 5000, 6400, 6500, 6600, 8200}

GapInit ==
    /\ GatewayInit
    /\ MemoryInit
    /\ IngestInit
    /\ stage = "searched"
    /\ retrieved_docs \in HitListsOf(GapScores, {"d1"}, MaxHits) \ {<<>>}
    /\ relevant_docs = <<>>

ApplyGapFilter ==
    /\ stage = "searched"
    /\ stage' = "ranked"
    /\ relevant_docs' = GapFilter(retrieved_docs)
    /\ UNCHANGED <<retrieved_docs, gatewayVars, memoryVars>>

GapNext == ApplyGapFilter /\ UNCHANGED ingestVars

SpecGap == GapInit /\ [][GapNext]_vars

\* The conversation memory: queries that find one document, with an LLM
\* that answers or fails, and the two clears. The k-th question a user
\* asks after a clear is the text k.
TOP_K_DEFAULT == 5

MemEnvs ==
    QueryEnvsOf({[gpu_load |-> TRUE, enc1 |-> "ok", enc2 |-> "ok"]}, {"ok"},
                {<<Hit(7000, "d1", 0)>>}, LlmAnswers \cup {"error"})

MemInit == GatewayInit /\ PipelineInit /\ MemoryInit /\ IngestInit

MemNext ==
    \/ /\ \E u \in Users, e \in MemEnvs :
             /\ Len(appended[u]) < MaxAppends
             /\ query_rag(u, Len(appended[u]) + 1, TOP_K_DEFAULT, e)
       /\ UNCHANGED ingestVars
    \/ /\ \E u \in Users : clear_user_memory(u)
       /\ UNCHANGED ingestVars
    \/ /\ clear_all_memory
       /\ UNCHANGED ingestVars

SpecMem == MemInit /\ [][MemNext]_vars

\* The query pipeline: every outcome of the embedding call, of the search
\* and of the LLM, over hit lists of up to MaxQueryHits hits from two
\* documents, asked by one user. A choice of the environment that the query never consults
\* (the hits of a search that raises, the answer of an LLM that is not
\* called) is fixed, so that each course of a query is taken once.
QueryScores == {7000, 3504, 3502}
Docs == {"d1", "d2"}

Consulted(e) ==
    /\ e.emb.gpu_load
    /\ e.emb.enc1 # "cuda_error" => e.emb.enc2 = "ok"
    /\ e.emb.enc1 = "error" \/ e.emb.enc2 = "error" => e.search = "ok"
    /\ e.emb.enc1 = "error" \/ e.emb.enc2 = "error" \/ e.search = "error"
          => e.hits = <<>>
    /\ e.hits = <<>> => e.llm \in LlmAnswers

QueryEnvs ==
    {e \in QueryEnvsOf(CallEnvs, {"ok", "error"},
                       HitListsOf(QueryScores, Docs, MaxQueryHits),
                       LlmAnswers \cup {"error"}) : Consulted(e)}

QueryInit == GatewayInit /\ PipelineInit /\ MemoryInit /\ IngestInit

QueryUsers == {"u1"}

QueryNext ==
    /\ \E u \in QueryUsers, e \in QueryEnvs :
          /\ Len(appended[u]) < MaxTurns
          /\ query_rag(u, Len(appended[u]) + 1, TOP_K_DEFAULT, e)
    /\ UNCHANGED ingestVars

SpecQuery == QueryInit /\ [][QueryNext]_vars

\* The connector alone: inserts of one full batch and of one point more
\* than a batch, for two documents, with every batch that can fail;
\* deletes, listings, stats and searches, failing or not.
InsertSizes == {BATCH_SIZE, BATCH_SIZE + 1}

StoreNext ==
    \/ /\ \E d \in DocumentIds, n \in InsertSizes, fail_at \in 0..2 :
             /\ Len(points) + n <= MaxPoints
             /\ next_point_id + n <= MaxPointId
             /\ fail_at <= (n + BATCH_SIZE - 1) \div BATCH_SIZE
             /\ insert_vectors([i \in 1..n |-> i], MetadatasOf(d, n), fail_at)
       /\ UNCHANGED <<gatewayVars, pipelineVars, memoryVars>>
    \/ /\ \E d \in DocumentIds :
             insert_vectors(<<1, 2>>, MetadatasOf(d, 1), 0)
       /\ UNCHANGED <<gatewayVars, pipelineVars, memoryVars>>
    \/ /\ \E d \in DocumentIds, outcome \in {"ok", "error"} :
             delete_document(d, outcome)
       /\ UNCHANGED <<gatewayVars, pipelineVars, memoryVars>>
    \/ /\ \E fail_at \in 0..3 :
             /\ fail_at <= Len(points) \div scroll_batch_size + 1
             /\ get_indexed_documents(fail_at)
       /\ UNCHANGED <<gatewayVars, pipelineVars, memoryVars>>
    \/ /\ \E outcome \in {"ok", "error"} : get_stats(outcome)
       /\ UNCHANGED <<gatewayVars, pipelineVars, memoryVars>>
    \/ /\ \E outcome \in {"ok", "error"},
             hits \in {<<>>} \cup {<<Hit(7000, points[i].payload.document_id,
                                        points[i].payload.chunk_index)>> :
                                      i \in DOMAIN points \cap {1}} :
             /\ outcome = "error" => hits = <<>>
             /\ search(TOP_K_DEFAULT, hits, outcome)
       /\ UNCHANGED <<gatewayVars, pipelineVars, memoryVars>>

StoreSpecInit == GatewayInit /\ PipelineInit /\ MemoryInit /\ IngestInit

SpecStore == StoreSpecInit /\ [][StoreNext]_vars

\* Ingestion: two documents uploaded and processed, with every outcome of
\* the extraction, of the chunking (up to MaxChunks chunks, or one chunk
\* more than an insert batch), of the embedding call and of each upsert,
\* and listings in between.
IngestChunkCounts == 0..MaxChunks \cup {BATCH_SIZE + 1}

IngestEmbEnvs ==
    {[gpu_load |-> TRUE, enc1 |-> o, enc2 |-> "ok"] : o \in EncodeOutcomes}

IngestEnvs ==
    IngestEnvsOf(OcrOutcomes, IngestChunkCounts, IngestEmbEnvs, 0..2)

IngestNext ==
    \/ /\ \E d \in DocumentIds : upload_document(d)
       /\ UNCHANGED <<pipelineVars, memoryVars>>
    \/ /\ \E d \in DocumentIds, e \in IngestEnvs :
             process_document_background(d, e)
       /\ UNCHANGED <<pipelineVars, memoryVars>>
    \/ /\ \E fail_at \in 0..1 : get_indexed_documents(fail_at)
       /\ UNCHANGED <<gatewayVars, pipelineVars, memoryVars>>

IngestSpecInit == GatewayInit /\ PipelineInit /\ MemoryInit /\ IngestInit

SpecIngest == IngestSpecInit /\ [][IngestNext]_vars

\* Ingestion with its scheduling: a background task that was queued by
\* background_tasks.add_task is run once the upload's response is sent, so
\* the task of a received document does not wait for ever.
IngestFairness ==
    \A d \in DocumentIds :
        WF_vars(/\ \E e \in IngestEnvs : process_document_background(d, e)
                /\ UNCHANGED <<pipelineVars, memoryVars>>)

SpecIngestLive == IngestSpecInit /\ [][IngestNext]_vars /\ IngestFairness

\* The one embeddings service under its two callers: queries (embed_text)
\* and background ingestions (embed_texts), with the clock. Both are
\* coroutines of the one event loop and neither awaits during its embedding
\* call, so the calls run one whole call after the other, in any order.
SharedQueryEnvs ==
    QueryEnvsOf(CallEnvs, {"ok"}, {<<Hit(7000, "d1", 0)>>}, LlmAnswers)

SharedIngestEnvs ==
    {e \in IngestEnvsOf({"some text"}, {1}, CallEnvs, {0}) :
        e.chunking = "ok"}

SharedTick == GPU_RETRY_INTERVAL + 1

SharedNext ==
    \/ /\ \E e \in SharedQueryEnvs :
             /\ Len(appended["u1"]) < MaxTurns
             /\ query_rag("u1", Len(appended["u1"]) + 1, TOP_K_DEFAULT, e)
       /\ UNCHANGED ingestVars
    \/ /\ \E d \in DocumentIds : upload_document(d)
       /\ UNCHANGED <<pipelineVars, memoryVars>>
    \/ /\ \E d \in DocumentIds, e \in SharedIngestEnvs :
             process_document_background(d, e)
       /\ UNCHANGED <<pipelineVars, memoryVars>>
    \/ /\ Tick(SharedTick)
       /\ UNCHANGED <<pipelineVars, memoryVars, ingestVars>>

SharedInit == GatewayInit /\ PipelineInit /\ MemoryInit /\ IngestInit

SpecShared == SharedInit /\ [][SharedNext]_vars

(***************************************************************************)
(* Properties                                                              *)
(***************************************************************************)

\* C1 (SpecMem): after any sequence of queries and clears, every user's
\* stored history holds at most 20 exchanges and is the last min(n, 20) of
\* the n exchanges appended for that user since the last clear, in append
\* order; with 21 appended, the first one is gone.
C1_HistoryIsLast20 ==
    \A u \in Users :
        LET h == HistoryOf(u)
            n == Len(appended[u])
        IN  /\ Len(h) <= MAX_HISTORY
            /\ Len(h) = Min(n, MAX_HISTORY)
            /\ \A i \in 1..Len(h) : h[i] = appended[u][n - Len(h) + i]
            /\ n = MAX_HISTORY + 1 => h[1] = appended[u][2]

C1_Witness ==
    \E u \in Users :
        /\ Len(appended[u]) = MAX_HISTORY + 1
        /\ Len(HistoryOf(u)) = MAX_HISTORY
        /\ HistoryOf(u)[1].user = 2

\* The service has fallen back: it runs on the CPU and was started on CUDA.
InFallback(g) == g.device = "cpu" /\ g.original_device = "cuda"

C3_NoGpuBeforeInterval ==
    (/\ last_call.op # "none"
     /\ InFallback(last_call.start)
     /\ last_call.at - last_call.start.last_fallback_time <= GPU_RETRY_INTERVAL)
    => /\ last_call.restore = "none"
       /\ \A i \in 1..Len(last_call.encodes) :
             last_call.encodes[i].device = "cpu"
       /\ last_call.gw.device = "cpu"
       /\ last_call.gw.model_device = "cpu"

C3_Witness ==
    /\ last_call.op # "none"
    /\ InFallback(last_call.start)
    /\ last_call.at - last_call.start.last_fallback_time = GPU_RETRY_INTERVAL
    /\ last_call.result = "ok"
    /\ last_call.encodes[1].device = "cpu"

ExceedsBoth(docs) ==
    /\ Len(docs) >= 2
    /\ docs[1].similarity > DOMINANCE_THRESHOLD
    /\ docs[1].similarity - docs[2].similarity > GAP_THRESHOLD

NumAtOrAboveCutoff(docs) ==
    Cardinality({i \in 1..Len(docs) : docs[i].similarity >= SECONDARY_CUTOFF})

\* C6 (SpecGap): gap filtering of a non-empty hit list is never empty.
C6_NeverEmpty ==
    (stage = "ranked" /\ retrieved_docs # <<>>) => relevant_docs # <<>>

C6_Witness ==
    /\ stage = "ranked"
    /\ ExceedsBoth(retrieved_docs)
    /\ Len(retrieved_docs) = MaxHits
    /\ Len(relevant_docs) = MIN_KEPT
    /\ NumAtOrAboveCutoff(retrieved_docs) = 1

\* C7 (SpecGap), as claimed: gap filtering returns the hit list unchanged
\* whenever there are fewer than two hits, or the top score does not exceed
\* the dominance threshold, or the gap does not exceed the gap threshold.
C7_UnchangedUnlessTriggered ==
    (/\ stage = "ranked"
     /\ \/ Len(retrieved_docs) < 2
        \/ retrieved_docs[1].similarity <= DOMINANCE_THRESHOLD
        \/ retrieved_docs[1].similarity - retrieved_docs[2].similarity
              <= GAP_THRESHOLD)
    => relevant_docs = retrieved_docs

\* C8 (SpecGap), as claimed: when the top score exceeds the dominance
\* threshold and the gap exceeds the gap threshold, no hit below the
\* secondary cutoff is left in the result, except the top hit when no hit
\* reaches the cutoff.
C8_Original ==
    (stage = "ranked" /\ ExceedsBoth(retrieved_docs))
    => \A i \in 1..Len(relevant_docs) :
          \/ relevant_docs[i].similarity >= SECONDARY_CUTOFF
          \/ /\ i = 1
             /\ NumAtOrAboveCutoff(retrieved_docs) = 0

\* C8 (SpecGap), amended: when the top score exceeds the dominance threshold
\* and the gap exceeds the gap threshold, the result is exactly the hits at
\* or above the secondary cutoff if there are at least three of them;
\* otherwise it is the first three hits (all hits when there are fewer),
\* below the cutoff or not.
C8_DropsBelowCutoffOrKeepsTop3 ==
    (stage = "ranked" /\ ExceedsBoth(retrieved_docs))
    => LET n == NumAtOrAboveCutoff(retrieved_docs)
       IN  IF n >= MIN_KEPT
           THEN /\ Len(relevant_docs) = n
                /\ \A i \in 1..n : relevant_docs[i] = retrieved_docs[i]
                /\ \A i \in 1..n :
                      relevant_docs[i].similarity >= SECONDARY_CUTOFF
           ELSE /\ Len(relevant_docs) = Min(MIN_KEPT, Len(retrieved_docs))
                /\ \A i \in 1..Len(relevant_docs) :
                      relevant_docs[i] = retrieved_docs[i]

C8_Witness ==
    /\ stage = "ranked"
    /\ ExceedsBoth(retrieved_docs)
    /\ NumAtOrAboveCutoff(retrieved_docs) = MIN_KEPT
    /\ Len(retrieved_docs) > MIN_KEPT
    /\ Len(relevant_docs) = MIN_KEPT

\* C9 (SpecGap): every hit whose score is at or above the secondary cutoff
\* is in the result of gap filtering, whether or not the trigger fired.
C9_AtOrAboveCutoffSurvives ==
    stage = "ranked"
    => \A i \in 1..Len(retrieved_docs) :
          retrieved_docs[i].similarity >= SECONDARY_CUTOFF
          => \E j \in 1..Len(relevant_docs) :
                relevant_docs[j] = retrieved_docs[i]

C9_Witness ==
    /\ stage = "ranked"
    /\ Len(retrieved_docs) = 2
    /\ ExceedsBoth(retrieved_docs)
    /\ retrieved_docs[2].similarity >= SECONDARY_CUTOFF
    /\ relevant_docs = retrieved_docs

\* C10 (SpecQuery): a query whose search returned no hit returns the fixed
\* answer and no source, and the LLM was not called for it.
C10_ZeroHitsShortCircuit ==
    (/\ last_response.kind = "query"
     /\ stage \notin {"raised_embed", "raised_search"}
     /\ retrieved_docs = <<>>)
    => /\ last_response.status = "ok"
       /\ last_response.answer = NO_DOCS_ANSWER
       /\ last_response.sources = <<>>
       /\ last_response.llm_calls = 0

C10_Witness ==
    /\ last_response.kind = "query"
    /\ stage = "no_results"
    /\ retrieved_docs = <<>>
    /\ last_response.answer = NO_DOCS_ANSWER
    /\ last_response.llm_calls = 0
    /\ last_call.result = "ok"

\* The document ids of a list of hits or of sources.
DocIds(s) == {s[i].document_id : i \in DOMAIN s}

\* The hits of document d in a list of hits.
HitsOf(docs, d) == {i \in DOMAIN docs : docs[i].document_id = d}

\* C11 (SpecQuery): the sources of an answered query hold every document
\* id of the surviving hits exactly once and no other, and are ordered by
\* non-increasing similarity score.
C11_OnePerDocSortedByScore ==
    (last_response.kind = "query" /\ stage = "answered")
    => LET s == last_response.sources
       IN  /\ DocIds(s) = DocIds(relevant_docs)
           /\ \A i, j \in DOMAIN s :
                  s[i].document_id = s[j].document_id => i = j
           /\ \A i \in 1..(Len(s) - 1) :
                  s[i].similarity_score >= s[i + 1].similarity_score

C11_Witness ==
    /\ last_response.kind = "query"
    /\ stage = "answered"
    /\ Len(relevant_docs) = 2
    /\ Len(last_response.sources) = 2
    /\ last_response.sources[1].similarity_score
          > last_response.sources[2].similarity_score

\* C12 (SpecQuery): the source returned for a document is the occurrence
\* with the highest similarity among that document's surviving hits: its
\* chunk index is that hit's and its score is that hit's score rounded to
\* three decimals, also when the scores differ only beyond the third
\* decimal.
C12_SourceIsBestHit ==
    (last_response.kind = "query" /\ stage = "answered")
    => \A k \in DOMAIN last_response.sources :
          LET src == last_response.sources[k]
              own == HitsOf(relevant_docs, src.document_id)
          IN  \E i \in own :
                 /\ \A j \in own : relevant_docs[i].similarity
                                        >= relevant_docs[j].similarity
                 /\ src.chunk_index = relevant_docs[i].chunk_index
                 /\ src.similarity_score = Round3(relevant_docs[i].similarity)

\* The exchanges appended for the asking user before the query that
\* last_response reports (a query that returned has appended its own).
AppendedBefore ==
    LET a == appended[last_response.user]
    IN  IF last_response.status = "ok" THEN SubSeq(a, 1, Len(a) - 1) ELSE a

\* C13 (SpecMem): the history section of a query's prompt holds the user
\* utterances of the last min(n, 5) exchanges stored for the user when the
\* query was asked, in order, and nothing else: no assistant answer and
\* nothing of an older exchange.
C13_HistoryIsLastFiveQuestions ==
    (last_response.kind = "query" /\ stage \in {"answered", "raised_llm"})
    => LET hs == last_response.prompt.history_section
           pre == AppendedBefore
       IN  /\ Len(hs) <= HISTORY_WINDOW
           /\ Len(hs) = Min(Len(pre), HISTORY_WINDOW)
           /\ \A i \in 1..Len(hs) :
                  hs[i] = pre[Len(pre) - Len(hs) + i].user

C13_Witness ==
    /\ last_response.kind = "query"
    /\ stage = "answered"
    /\ Len(AppendedBefore) = HISTORY_WINDOW + 2
    /\ last_response.prompt.history_section = <<3, 4, 5, 6, 7>>

\* C14 (SpecStore): insert_vectors sends the points in consecutive groups
\* of at most BATCH_SIZE, in input order: the first group starts at the
\* first point, each group starts where the one before it ended, no group
\* is empty, a group is sent only after every group before it was
\* acknowledged, and a call that returns has sent every point and left
\* them in the store in input order.
C14_ConsecutiveBatches ==
    store_response.op = "insert_vectors"
    => /\ \A k \in DOMAIN store_log :
             /\ store_log[k].call = "upsert"
             /\ store_log[k].first = IF k = 1 THEN 0 ELSE store_log[k - 1].last
             /\ store_log[k].first < store_log[k].last
             /\ store_log[k].last - store_log[k].first <= BATCH_SIZE
             /\ k < Len(store_log) => store_log[k].outcome = "ok"
       /\ store_response.status = "ok"
             => LET n == store_response.value
                IN  /\ store_log # <<>>
                    /\ store_log[Len(store_log)].last = n
                    /\ store_log[Len(store_log)].outcome = "ok"
                    /\ Len(points) >= n
                    /\ \A i \in 1..n :
                          points[Len(points) - n + i].payload.chunk_index
                              = i - 1

C14_Witness ==
    /\ store_response = Returned("insert_vectors", BATCH_SIZE + 1)
    /\ store_log = <<ClientCall("upsert", 0, BATCH_SIZE, "ok"),
                     ClientCall("upsert", BATCH_SIZE, BATCH_SIZE + 1, "ok")>>
    /\ Len(points) = BATCH_SIZE + 1

\* The ids of the stored points.
PointIds(pts) == {pts[i].id : i \in DOMAIN pts}

\* A step that is a returned insert_vectors call.
InsertReturned ==
    /\ next_point_id' # next_point_id
    /\ store_response'.op = "insert_vectors"
    /\ store_response'.status = "ok"

\* C15 as stated (SpecStore): an insert_vectors call that repeats the call
\* before it leaves the set of stored points as it was.
C15_Original ==
    [][(/\ store_response.op = "insert_vectors"
        /\ store_response.status = "ok"
        /\ InsertReturned
        /\ store_response' = store_response
        /\ points'[Len(points')].payload = points[Len(points)].payload)
       => PointIds(points') = PointIds(points)]_vars

\* C15 (SpecStore): insert_vectors appends: a call that returns leaves the
\* stored points as they were and adds one point per input, under ids that
\* no stored point has, so that a repeated insert stores its points a
\* second time.
C15_InsertAppendsUnderFreshIds ==
    [][InsertReturned
       => LET n == store_response'.value
              old == Len(points)
          IN  /\ Len(points') = old + n
              /\ SubSeq(points', 1, old) = points
              /\ \A i \in 1..n :
                    /\ points'[old + i].id \notin PointIds(points)
                    /\ points'[old + i].payload.chunk_index = i - 1]_vars

C15_Witness ==
    /\ store_response = Returned("insert_vectors", BATCH_SIZE)
    /\ Len(points) = 2 * BATCH_SIZE
    /\ \A i \in 1..BATCH_SIZE :
          /\ points[i].payload = points[BATCH_SIZE + i].payload
          /\ points[i].id # points[BATCH_SIZE + i].id

\* The stored points as a set.
PointSet(pts) == {pts[i] : i \in DOMAIN pts}

\* C16 (SpecStore): a delete_document call that returns has removed every
\* point of the document and no other point; when the document has no
\* point it returns all the same and the collection is as it was.
C16_DeleteRemovesTheDocument ==
    [][(store_response'.op = "delete_document"
        /\ store_response'.status = "ok")
       => LET d == store_response'.value
          IN  /\ PointSet(points') =
                     {p \in PointSet(points) : p.payload.document_id # d}
              /\ Len(points') = Cardinality(PointSet(points'))
              /\ PositionsOf(points, d) = {} => points' = points]_vars

C16_Witness ==
    /\ store_response = Returned("delete_document", "d1")
    /\ Len(points) = BATCH_SIZE
    /\ next_point_id = 2 * BATCH_SIZE + 1
    /\ \A i \in DOMAIN points : points[i].payload.document_id = "d2"

\* No client call of the last operation raised.
NoCallRaised == \A k \in DOMAIN store_log : store_log[k].outcome = "ok"

\* C17 (SpecStore): a listing whose scrolls all answer reads the collection
\* page by page to its end (each page starts after the one before it, the
\* last one ends at the last point) and returns one entry per document id
\* in the collection, with the number of that document's points.
C17_ListsEveryDocumentOnce ==
    (store_response.op = "get_indexed_documents" /\ NoCallRaised)
    => LET v == store_response.value
       IN  /\ store_log # <<>>
           /\ \A k \in DOMAIN store_log :
                 /\ store_log[k].call = "scroll"
                 /\ store_log[k].first =
                        IF k = 1 THEN 1 ELSE store_log[k - 1].last + 1
                 /\ store_log[k].last - store_log[k].first < scroll_batch_size
           /\ store_log[Len(store_log)].last = Len(points)
           /\ {v[k].document_id : k \in DOMAIN v}
                 = {points[i].payload.document_id : i \in DOMAIN points}
           /\ \A j, k \in DOMAIN v :
                 v[j].document_id = v[k].document_id => j = k
           /\ \A k \in DOMAIN v :
                 v[k].num_chunks
                     = Cardinality(PositionsOf(points, v[k].document_id))

C17_Witness ==
    /\ store_response.op = "get_indexed_documents"
    /\ NoCallRaised
    /\ Len(store_log) = 3
    /\ Len(points) = 2 * BATCH_SIZE + 1
    /\ Len(store_response.value) = 2
    /\ store_response.value[1].num_chunks = BATCH_SIZE
    /\ store_response.value[2].num_chunks = BATCH_SIZE + 1

\* C18 (SpecStore): when a client call of insert_vectors, search,
\* delete_document, get_indexed_documents or get_stats raises, the
\* operation raises to its caller, and it made no client call after the
\* one that raised.
C18_StoreErrorsAreRaised ==
    \A k \in DOMAIN store_log :
        store_log[k].outcome = "error"
        => /\ store_response.status = "raised"
           /\ k = Len(store_log)

\* The texts that hold nothing: empty, or white space only.
NoText == {"", "  "}

\* Document d was processed and its extraction gave no text (an extraction
\* that raised gives the empty text).
ExtractedNothing(d) ==
    /\ documents[d].status = "processed"
    /\ documents[d].stages[1].output \in NoText

\* C19 (SpecIngest): a document whose extracted text is empty or white
\* space only, or whose extraction raised, has run the extraction once and
\* no other stage, has no point in the collection, and is in no listing.
C19_EmptyTextStopsIngestion ==
    \A d \in DocumentIds :
        ExtractedNothing(d)
        => /\ Len(documents[d].stages) = 1
           /\ documents[d].stages[1].stage = "extract"
           /\ PositionsOf(points, d) = {}
           /\ store_response.op = "get_indexed_documents"
                 => \A k \in DOMAIN store_response.value :
                       store_response.value[k].document_id # d

C19_Witness ==
    /\ documents["d1"].status = "processed"
    /\ documents["d1"].stages[1].output = "  "
    /\ documents["d2"].status = "processed"
    /\ PositionsOf(points, "d2") # {}
    /\ store_response.op = "get_indexed_documents"
    /\ NoCallRaised
    /\ Len(store_response.value) = 1

\* The stages of an ingestion, in their order.
StageOrder == <<"extract", "chunk", "embed", "insert">>

\* A stage ended well and gave something for the next one to work on.
Succeeded(s) ==
    /\ s.outcome = "ok"
    /\ s.stage = "extract" => s.output \notin NoText
    /\ s.stage \in {"chunk", "embed"} => s.output > 0

\* C20 (SpecIngest): the stages a document's ingestion ran are the first
\* ones of extract, chunk, embed, insert, in that order, and each one ran
\* only after the one before it had succeeded; the collection holds the
\* document's chunks when the insert ran and succeeded, and no point of it
\* when the insert did not run.
C20_StagesRunInOrder ==
    \A d \in DocumentIds :
        LET st == documents[d].stages
        IN  /\ Len(st) <= Len(StageOrder)
            /\ \A k \in DOMAIN st :
                  /\ st[k].stage = StageOrder[k]
                  /\ k > 1 => Succeeded(st[k - 1])
            /\ Len(st) < Len(StageOrder) => PositionsOf(points, d) = {}
            /\ (Len(st) = Len(StageOrder) /\ Succeeded(st[Len(st)]))
                  => Cardinality(PositionsOf(points, d)) = st[2].output

C20_Witness ==
    /\ documents["d1"].status = "processed"
    /\ Len(documents["d1"].stages) = 4
    /\ documents["d1"].stages[4].outcome = "ok"
    /\ Len(points) = documents["d1"].stages[2].output
    /\ documents["d2"].status = "processed"
    /\ Len(documents["d2"].stages) = 3
    /\ documents["d2"].stages[3].outcome = "error"

\* The step is a clear of user u's memory, resp. of every user's.
ClearedUser(u) == last_response'.kind = "clear" /\ last_response'.target = u
ClearedAll == last_response'.kind = "clear" /\ last_response'.target = "all"

\* C25 (SpecMem): clearing user u's memory removes u's history, reports
\* the number of exchanges it held (0 when u had none) and leaves the
\* other users' histories as they were; clearing all memory leaves no
\* history and reports the number of exchanges held by all users together.
C25_ClearCountsWhatItRemoves ==
    [][/\ \A u \in Users :
             ClearedUser(u)
             => /\ u \notin DOMAIN user_conversations'
                /\ last_response'.exchanges_removed = Len(HistoryOf(u))
                /\ \A x \in Users \ {u} :
                      /\ x \in DOMAIN user_conversations'
                            <=> x \in DOMAIN user_conversations
                      /\ x \in DOMAIN user_conversations
                            => user_conversations'[x] = user_conversations[x]
       /\ ClearedAll
             => /\ DOMAIN user_conversations' = {}
                /\ last_response'.exchanges_removed =
                       Len(HistoryOf("u1")) + Len(HistoryOf("u2"))]_vars

C25_Witness ==
    /\ last_response.kind = "clear"
    /\ last_response.target = "all"
    /\ last_response.users_removed = 2
    /\ last_response.exchanges_removed = MAX_HISTORY + 3
    /\ user_conversations = <<>>

\* The stages at which a query that failed has stopped.
FailedStages == {"raised_embed", "raised_search", "raised_llm"}

\* C26 (SpecQuery): a query whose embedding, search or LLM call raised
\* gives its caller an error, with no answer and no source, and leaves
\* every user's history without a new exchange.
C26_FailedQueryLeavesNoTurn ==
    [][(last_response'.kind = "query" /\ stage' \in FailedStages)
       => /\ last_response'.status = "error"
          /\ last_response'.answer = ""
          /\ last_response'.sources = <<>>
          /\ appended' = appended
          /\ \A u \in Users :
                /\ u \in DOMAIN user_conversations
                      => /\ u \in DOMAIN user_conversations'
                         /\ user_conversations'[u] = user_conversations[u]
                /\ (u \in DOMAIN user_conversations'
                    /\ u \notin DOMAIN user_conversations)
                      => user_conversations'[u] = <<>>]_vars

C26_Witness ==
    /\ last_response.kind = "query"
    /\ stage = "raised_llm"
    /\ last_response.status = "error"
    /\ last_response.llm_calls = 1
    /\ Len(HistoryOf("u1")) = 1
    /\ Len(appended["u1"]) = 1

\* The last call was embed_texts without a batch size: its first encode
\* ran with none of the batch sizes that callers give.
CalledWithoutBatchSize ==
    /\ last_call.op = "embed_texts"
    /\ last_call.encodes[1].batch_size \notin BatchSizes \ {0}

\* C28 (SpecEmb): every encode of an embed_texts call made without a batch
\* size runs with the loaded model's gpu_batch_size when the model is on
\* CUDA at that moment and with its cpu_batch_size when it is on the CPU
\* (after a GPU restore and after a fallback as well); and every model of
\* the table has a gpu_batch_size greater than its cpu_batch_size.
C28_BatchSizeFollowsDevice ==
    /\ CalledWithoutBatchSize
          => \A k \in DOMAIN last_call.encodes :
                last_call.encodes[k].batch_size =
                    IF last_call.encodes[k].device = "cuda"
                    THEN MODELS[model_name].gpu_batch_size
                    ELSE MODELS[model_name].cpu_batch_size
    /\ \A n \in DOMAIN MODELS :
          MODELS[n].gpu_batch_size > MODELS[n].cpu_batch_size

C28_Witness ==
    /\ CalledWithoutBatchSize
    /\ last_call.restore = "ok"
    /\ Len(last_call.encodes) = 2
    /\ last_call.encodes[1].device = "cuda"
    /\ last_call.encodes[1].batch_size = MODELS[model_name].gpu_batch_size
    /\ last_call.encodes[2].device = "cpu"
    /\ last_call.encodes[2].batch_size = MODELS[model_name].cpu_batch_size

\* The step is a query that returned an answer to its caller.
QueryAnswered == last_response'.kind = "query" /\ last_response'.status = "ok"

\* C30 (SpecQuery): a query that returns an answer, the fixed answer of a
\* search without hits included, adds one exchange to the end of the
\* asking user's history, made of the query text and the answer returned,
\* and touches no other user's history; and the prompt of a later query
\* holds the question of every exchange stored for the user (the histories
\* of this specification are shorter than the window), whatever its
\* answer was.
C30_AnsweredQueryAppendsOneTurn ==
    [][/\ QueryAnswered
          => LET u == last_response'.user
                 turn == [user |-> last_response'.query,
                          assistant |-> last_response'.answer]
             IN  /\ user_conversations'[u] = Append(HistoryOf(u), turn)
                 /\ appended'[u] = Append(appended[u], turn)
                 /\ \A x \in DOMAIN user_conversations \ {u} :
                       user_conversations'[x] = user_conversations[x]
       /\ (last_response'.kind = "query"
           /\ stage' \in {"answered", "raised_llm"})
          => LET h == HistoryOf(last_response'.user)
                 hs == last_response'.prompt.history_section
             IN  /\ Len(hs) = Len(h)
                 /\ \A i \in DOMAIN h : hs[i] = h[i].user]_vars

C30_Witness ==
    /\ last_response.kind = "query"
    /\ stage = "answered"
    /\ Len(HistoryOf("u1")) = 2
    /\ HistoryOf("u1")[1] = [user |-> 1, assistant |-> NO_DOCS_ANSWER]
    /\ HistoryOf("u1")[2] = [user |-> 2, assistant |-> last_response.answer]
    /\ last_response.prompt.history_section = <<1>>

\* The points of document d, in the order of the collection.
PointsOf(pts, d) ==
    LET Own(p) == p.payload.document_id = d
    IN  SelectSeq(pts, Own)

\* Every stage of the ingestion ran and succeeded.
AllStagesSucceeded(doc) ==
    /\ Len(doc.stages) = Len(StageOrder)
    /\ \A k \in DOMAIN doc.stages : Succeeded(doc.stages[k])

\* C21 (SpecIngest): the background task of a document, failing or not,
\* returns (the document is processed), leaves the other documents'
\* records and points as they were, and, when its own stages all
\* succeeded, leaves the document fully indexed: one point per chunk, in
\* chunk order, whatever happened to the documents processed before it.
C21_FailureStaysWithItsDocument ==
    [][\A d \in DocumentIds :
          (documents[d].status = "received" /\ documents'[d] # documents[d])
          => /\ documents'[d].status = "processed"
             /\ \A x \in DocumentIds \ {d} :
                   /\ documents'[x] = documents[x]
                   /\ PointsOf(points', x) = PointsOf(points, x)
             /\ AllStagesSucceeded(documents'[d])
                   => LET own == PointsOf(points', d)
                      IN  /\ Len(own) = documents'[d].stages[2].output
                          /\ \A i \in DOMAIN own :
                                own[i].payload.chunk_index = i - 1]_vars

C21_Witness ==
    /\ Len(documents["d1"].stages) = 4
    /\ documents["d1"].stages[4].outcome = "error"
    /\ PointsOf(points, "d1") = <<>>
    /\ AllStagesSucceeded(documents["d2"])
    /\ Len(PointsOf(points, "d2")) = documents["d2"].stages[2].output
    /\ points[1].id > 1

\* The ingestion of the document ran its insert, which raised.
FailedAtInsert(doc) ==
    /\ Len(doc.stages) = Len(StageOrder)
    /\ doc.stages[Len(StageOrder)].outcome = "error"

\* C29 (SpecIngest): when upsert number k of a document's insert raises,
\* the insert raises and the ingestion ends as failed at the insert, and
\* the collection has gained exactly the points of the k - 1 batches sent
\* before, in chunk order: fewer points than the document has chunks; a
\* listing that follows shows the document with that number of chunks.
C29_FailedInsertKeepsEarlierBatches ==
    [][/\ \A d \in DocumentIds :
             (documents[d].status = "received"
              /\ FailedAtInsert(documents'[d]))
             => LET k == Len(store_log')
                    own == PointsOf(points', d)
                IN  /\ store_response' = Raised("insert_vectors")
                    /\ store_log'[k].outcome = "error"
                    /\ Len(own) = (k - 1) * BATCH_SIZE
                    /\ Len(own) < documents'[d].stages[2].output
                    /\ \A i \in DOMAIN own : own[i].payload.chunk_index = i - 1
                    /\ points' = points \o own
       /\ \A d \in DocumentIds :
             (/\ FailedAtInsert(documents[d])
              /\ PointsOf(points, d) # <<>>
              /\ store_response'.op = "get_indexed_documents"
              /\ \A j \in DOMAIN store_log' : store_log'[j].outcome = "ok")
             => \E j \in DOMAIN store_response'.value :
                   /\ store_response'.value[j].document_id = d
                   /\ store_response'.value[j].num_chunks
                          = Len(PointsOf(points, d))]_vars

C29_Witness ==
    /\ FailedAtInsert(documents["d1"])
    /\ documents["d1"].stages[2].output = BATCH_SIZE + 1
    /\ Len(PointsOf(points, "d1")) = BATCH_SIZE
    /\ store_response.op = "get_indexed_documents"
    /\ NoCallRaised
    /\ \E j \in DOMAIN store_response.value :
          /\ store_response.value[j].document_id = "d1"
          /\ store_response.value[j].num_chunks = BATCH_SIZE

\* The document's ingestion ended with all its chunks stored.
Indexed(d) ==
    /\ documents[d].status = "processed"
    /\ AllStagesSucceeded(documents[d])
    /\ Len(PointsOf(points, d)) = documents[d].stages[2].output

\* The document's ingestion ended at a stage that failed or gave nothing:
\* each such end is logged (app.py:622, 629, 639, 646, 662 and
\* rag_pipeline.py:164, 194).
FailureLogged(d) ==
    /\ documents[d].status = "processed"
    /\ ~Succeeded(documents[d].stages[Len(documents[d].stages)])

\* C22 (SpecIngestLive): the ingestion of every uploaded document ends,
\* either with all the document's chunks stored or with a logged failure,
\* as long as every external call returns or raises.
C22_IngestionTerminates ==
    \A d \in DocumentIds :
        documents[d].status = "received" ~> (Indexed(d) \/ FailureLogged(d))

C22_Witness ==
    /\ Indexed("d1")
    /\ FailureLogged("d2")
    /\ documents["d2"].stages[Len(documents["d2"].stages)].stage = "embed"

\* The list stored under user u in the map conv, none when u has no key.
StoredUnder(conv, u) == IF u \in DOMAIN conv THEN conv[u] ELSE <<>>

\* The step is a query of user u.
QueryOf(u) == last_response'.kind = "query" /\ last_response'.user = u

\* C24 (SpecMem): with the queries and clears of two users interleaved in
\* every order, no stored history exceeds 20 exchanges; a query that
\* completes leaves its exchange as the last of its user's history, behind
\* the exchanges already there (cut to the last 20); a history is changed
\* by nothing but a query of its user and a clear of it; and a query fails
\* only when one of its external calls raised.
C24_MemoryUpdatesAreAtomic ==
    [][/\ \A u \in DOMAIN user_conversations' :
             Len(user_conversations'[u]) <= MAX_HISTORY
       /\ \A u \in Users :
             /\ (QueryOf(u) /\ last_response'.status = "ok")
                   => /\ u \in DOMAIN user_conversations'
                      /\ user_conversations'[u] =
                             LastN(Append(StoredUnder(user_conversations, u),
                                          [user |-> last_response'.query,
                                           assistant |->
                                               last_response'.answer]),
                                   MAX_HISTORY)
             /\ ~(QueryOf(u) \/ ClearedUser(u) \/ ClearedAll)
                   => /\ u \in DOMAIN user_conversations'
                            <=> u \in DOMAIN user_conversations
                      /\ StoredUnder(user_conversations', u) =
                             StoredUnder(user_conversations, u)
       /\ (last_response'.kind = "query" /\ last_response'.status = "error")
             => stage' \in FailedStages]_vars

C24_Witness ==
    /\ last_response.kind = "query"
    /\ last_response.user = "u2"
    /\ last_response.status = "ok"
    /\ "u1" \in DOMAIN user_conversations
    /\ Len(user_conversations["u1"]) = 2
    /\ Len(appended["u2"]) = MAX_HISTORY + 1
    /\ Len(user_conversations["u2"]) = MAX_HISTORY
    /\ user_conversations["u2"][MAX_HISTORY].user = MAX_HISTORY + 1

====
